---- MODULE Spec2Model ----
(***************************************************************************)
(* Model of marrowb/cfi-cleaner: the truth merge of app.py and the         *)
(* extraction pipeline of clean_cfi.py.                                    *)
(*                                                                         *)
(* Python text is a sequence of one-character strings, so that strip,      *)
(* split, int(), strptime and the "," format are computed and not assumed. *)
(* Python dict objects live in a heap and are named by reference, so that  *)
(* the sharing left by a shallow copy is visible.                          *)
(***************************************************************************)
EXTENDS Integers, Sequences, FiniteSets, TLC

VARIABLES
    heap,        \* reference -> field map: the inner dict objects
    nrefs,       \* number of allocated references
    truth_data,  \* the caller's truth store: an outer dict (order + key -> ref)
    orig_truth,  \* ghost: the value of the truth store when it was loaded
    calls,       \* ghost: one entry per finished update_truth_with_new_data call
    updated_data,\* the outer dict returned by the last call
    sorted_data, \* the outer dict main displays (after sort_date_range_dict)
    mpc,         \* position of the caller: "loaded", "merged", "shown"
    rows,        \* the grid read from the government file (metadata rows skipped)
    locals,      \* extract_credible_fear_data's locals when it was left
    outcome,     \* how extract_credible_fear_data was left: return or raise
    main_outcome,\* how app.py's main was left
    epc          \* "ready", "extracted" (a direct call), "main" (main has run)

mvars == <<heap, nrefs, truth_data, orig_truth, calls, updated_data, sorted_data, mpc>>
evars == <<rows, locals, outcome, main_outcome, epc>>
vars == <<mvars, evars>>

(***************************************************************************)
(* Text helpers                                                            *)
(***************************************************************************)
DigitChars == <<"0", "1", "2", "3", "4", "5", "6", "7", "8", "9">>

IsDigit(c) == \E i \in 1..10 : DigitChars[i] = c

DigitVal(c) == (CHOOSE i \in 1..10 : DigitChars[i] = c) - 1

AllDigits(s) == \A i \in 1..Len(s) : IsDigit(s[i])

RECURSIVE ParseNat(_)
ParseNat(s) ==
    IF s = <<>> THEN 0
    ELSE ParseNat(SubSeq(s, 1, Len(s) - 1)) * 10 + DigitVal(s[Len(s)])

RECURSIVE NatToStr(_)
NatToStr(n) ==
    IF n < 10 THEN <<DigitChars[n + 1]>>
    ELSE NatToStr(n \div 10) \o <<DigitChars[(n % 10) + 1]>>

\* str.split(sep) for a one-character separator: the list of pieces
RECURSIVE SplitFrom(_, _, _, _)
SplitFrom(s, sep, i, cur) ==
    IF i > Len(s) THEN <<cur>>
    ELSE IF s[i] = sep THEN <<cur>> \o SplitFrom(s, sep, i + 1, <<>>)
    ELSE SplitFrom(s, sep, i + 1, Append(cur, s[i]))

Split(s, sep) == SplitFrom(s, sep, 1, <<>>)

SeqRange(s) == {s[i] : i \in 1..Len(s)}

None == [type |-> "NoneType"]
(***************************************************************************)
(* Python text operations, on sequences of characters                      *)
(***************************************************************************)
UpperChars == <<"A","B","C","D","E","F","G","H","I","J","K","L","M",
                "N","O","P","Q","R","S","T","U","V","W","X","Y","Z">>
LowerChars == <<"a","b","c","d","e","f","g","h","i","j","k","l","m",
                "n","o","p","q","r","s","t","u","v","w","x","y","z">>

UpperChar(c) == IF \E i \in 1..26 : LowerChars[i] = c
                THEN UpperChars[CHOOSE i \in 1..26 : LowerChars[i] = c] ELSE c
LowerChar(c) == IF \E i \in 1..26 : UpperChars[i] = c
                THEN LowerChars[CHOOSE i \in 1..26 : UpperChars[i] = c] ELSE c

\* str.upper(), str.lower()
Upper(s) == [i \in 1..Len(s) |-> UpperChar(s[i])]
Lower(s) == [i \in 1..Len(s) |-> LowerChar(s[i])]

IsSpace(c) == c \in {" ", "\t", "\n", "\r"}

\* str.strip(): leading and trailing whitespace removed
Strip(s) ==
    LET keep == {i \in 1..Len(s) : ~IsSpace(s[i])}
    IN  IF keep = {} THEN <<>>
        ELSE SubSeq(s, CHOOSE i \in keep : \A j \in keep : i <= j,
                       CHOOSE i \in keep : \A j \in keep : j <= i)

\* str.replace(c, ''): every occurrence of the character removed
RemoveChar(s, c) == SelectSeq(s, LAMBDA x : x # c)

\* zero-padded decimal of width w (strftime's %Y, %m, %d)
RECURSIVE ZeroPad(_, _)
ZeroPad(s, w) == IF Len(s) >= w THEN s ELSE ZeroPad(<<"0">> \o s, w)

\* the texts of clean_cfi.py and of the report
TargetTitle == <<"A", "l", "l", " ", "C", "r", "e", "d", "i", "b", "l", "e", " ", "F", "e", "a", "r", " ", "C", "a", "s", "e", "s">>
TitleUpper == <<"A", "L", "L", " ", "C", "R", "E", "D", "I", "B", "L", "E", " ", "F", "E", "A", "R", " ", "C", "A", "S", "E", "S">>
TitleTrailing == <<"A", "l", "l", " ", "C", "r", "e", "d", "i", "b", "l", "e", " ", "F", "e", "a", "r", " ", "C", "a", "s", "e", "s", " ">>
OtherTitle == <<"A", "s", "y", "l", "u", "m", " ", "O", "f", "f", "i", "c", "e", "r", " ", "I", "n", "t", "e", "r", "v", "i", "e", "w", "s">>
LabelFrom == <<"F", "r", "o", "m">>
LabelTo == <<"T", "o">>
CaseReceipts == <<"C", "a", "s", "e", " ", "R", "e", "c", "e", "i", "p", "t", "s">>
AllDecisions == <<"A", "l", "l", " ", "D", "e", "c", "i", "s", "i", "o", "n", "s">>
Persecution == <<"F", "e", "a", "r", " ", "E", "s", "t", "a", "b", "l", "i", "s", "h", "e", "d", "_", "P", "e", "r", "s", "e", "c", "u", "t", "i", "o", "n", " ", "(", "Y", ")">>
Torture == <<"F", "e", "a", "r", " ", "E", "s", "t", "a", "b", "l", "i", "s", "h", "e", "d", "_", "T", "o", "r", "t", "u", "r", "e", " ", "(", "Y", ")">>
NotEstablished == <<"F", "e", "a", "r", " ", "N", "o", "t", " ", "E", "s", "t", "a", "b", "l", "i", "s", "h", "e", "d", " ", "(", "N", ")">>
AdminClosed == <<"A", "d", "m", "i", "n", "i", "s", "t", "r", "a", "t", "i", "v", "e", "l", "y", " ", "C", "l", "o", "s", "e", "d">>
UpperFROM == <<"F", "R", "O", "M">>
UpperTO == <<"T", "O">>
SentinelFromTo == <<"F", "r", "o", "m", "-", "T", "o">>
SentinelDash == <<"-">>
LabelTotal == <<"T", "o", "t", "a", "l">>
CellNA == <<"N", "/", "A">>
CellPadded42 == <<" ", "4", "2", " ">>

\* line 57-58: the six category labels
categories == <<CaseReceipts, AllDecisions, Persecution, Torture, NotEstablished, AdminClosed>>

(***************************************************************************)
(* Python values: int, None, and the conversions of clean_cfi.py           *)
(***************************************************************************)
PyInt(n) == [type |-> "int", v |-> n]

\* int(text): optional sign, then digits, single underscores allowed between
\* digits; anything else is a ValueError
IsIntLiteral(s) ==
    LET body == IF s # <<>> /\ s[1] \in {"+", "-"} THEN Tail(s) ELSE s
    IN  /\ body # <<>>
        /\ \A i \in 1..Len(body) : IsDigit(body[i]) \/ body[i] = "_"
        /\ IsDigit(body[1]) /\ IsDigit(body[Len(body)])
        /\ \A i \in 1..(Len(body) - 1) : ~(body[i] = "_" /\ body[i + 1] = "_")

IntOfLiteral(s) ==
    LET body == IF s[1] \in {"+", "-"} THEN Tail(s) ELSE s
        n == ParseNat(RemoveChar(body, "_"))
    IN  IF s[1] = "-" THEN 0 - n ELSE n

\* convert_to_int, lines 48-52
convert_to_int(value) == IF IsIntLiteral(value) THEN PyInt(IntOfLiteral(value)) ELSE None

\* f"{n:,}": the digits in groups of three from the right, the sign in front
RECURSIVE GroupThousands(_)
GroupThousands(n) ==
    IF n < 1000 THEN NatToStr(n)
    ELSE GroupThousands(n \div 1000) \o <<",">> \o ZeroPad(NatToStr(n % 1000), 3)

FormatComma(n) == IF n < 0 THEN <<"-">> \o GroupThousands(0 - n) ELSE GroupThousands(n)

(***************************************************************************)
(* datetime.strptime / strftime                                            *)
(***************************************************************************)
IsLeap(y) == (y % 4 = 0 /\ y % 100 # 0) \/ y % 400 = 0

DaysInMonth(y, m) ==
    IF m = 2 THEN (IF IsLeap(y) THEN 29 ELSE 28)
    ELSE IF m \in {4, 6, 9, 11} THEN 30 ELSE 31

\* the directives' patterns: %m is 1[0-2]|0[1-9]|[1-9], %d is
\* 3[01]|[12]\d|0[1-9]|[1-9]| [1-9], %Y is four digits
MatchesMonth(t) ==
    /\ Len(t) \in {1, 2} /\ AllDigits(t)
    /\ ParseNat(t) \in 1..12
MatchesDay(t) ==
    \/ Len(t) \in {1, 2} /\ AllDigits(t) /\ ParseNat(t) \in 1..31
    \/ Len(t) = 2 /\ t[1] = " " /\ IsDigit(t[2]) /\ t[2] # "0"
MatchesYear(t) == Len(t) = 4 /\ AllDigits(t)

DayOf(t) == IF t[1] = " " THEN ParseNat(Tail(t)) ELSE ParseNat(t)

NoDate == [ok |-> FALSE, y |-> 0, m |-> 0, d |-> 0]

\* the date of three matched tokens, or the ValueError of an impossible date
DateOfTokens(ty, tm, td) ==
    IF MatchesYear(ty) /\ MatchesMonth(tm) /\ MatchesDay(td)
    THEN LET y == ParseNat(ty)
             m == ParseNat(tm)
             d == DayOf(td)
         IN  IF y >= 1 /\ d <= DaysInMonth(y, m)
             THEN [ok |-> TRUE, y |-> y, m |-> m, d |-> d] ELSE NoDate
    ELSE NoDate

\* datetime.strptime(s, '%m/%d/%Y'); ok = FALSE stands for ValueError
StrpMDY(s) ==
    LET t == Split(s, "/")
    IN  IF Len(t) = 3 THEN DateOfTokens(t[3], t[1], t[2]) ELSE NoDate

\* datetime.strptime(s, '%Y-%m-%d')
StrpYMD(s) ==
    LET t == Split(s, "-")
    IN  IF Len(t) = 3 THEN DateOfTokens(t[1], t[2], t[3]) ELSE NoDate

\* date.strftime('%Y-%m-%d')
StrfYMD(dt) ==
    ZeroPad(NatToStr(dt.y), 4) \o <<"-">> \o ZeroPad(NatToStr(dt.m), 2)
        \o <<"-">> \o ZeroPad(NatToStr(dt.d), 2)

(***************************************************************************)
(* clean_cfi.py: the table locator and the region                          *)
(***************************************************************************)
\* is_table_header, lines 26-35
is_table_header(row) ==
    IF row = <<>> THEN FALSE
    ELSE /\ Strip(row[1]) # <<>>
         /\ \A i \in 2..Len(row) : Strip(row[i]) = <<>>

IsSubstring(a, b) ==
    \E i \in 0..(Len(b) - Len(a)) : SubSeq(b, i + 1, i + Len(a)) = a

\* fuzz.partial_ratio(s, target) of the fuzzywuzzy library: 100 when the
\* shorter text occurs in the longer, 0 when they share no character, and the
\* library's score for the other labels a report row can start with
partial_ratio(s, target) ==
    LET shorter == IF Len(s) <= Len(target) THEN s ELSE target
        longer == IF Len(s) <= Len(target) THEN target ELSE s
    IN  IF shorter = <<>> THEN 0
        ELSE IF IsSubstring(shorter, longer) THEN 100
        ELSE IF SeqRange(s) \cap SeqRange(target) = {} THEN 0
        ELSE CASE s = Lower(OtherTitle) -> 35
               [] s = Lower(LabelFrom) -> 50
               [] s = Lower(CaseReceipts) -> 56
               [] s = Lower(AllDecisions) -> 46
               [] s = Lower(Persecution) -> 35
               [] s = Lower(Torture) -> 30
               [] s = Lower(NotEstablished) -> 30
               [] s = Lower(AdminClosed) -> 30
               [] s = Lower(LabelTotal) -> 40
               [] s = Lower(CellNA) -> 33
               [] s = CellPadded42 -> 25

\* line 44: the similarity a header label must exceed
Threshold == 80

\* lines 40-44: the header's label matches the target title
MatchesTitle(row) == partial_ratio(Lower(row[1]), Lower(TargetTitle)) > Threshold

\* id_all_cfi_table, lines 37-46: Python's index of the first matching header
\* row, or None
id_all_cfi_table(grid) ==
    LET hits == {i \in 1..Len(grid) : is_table_header(grid[i]) /\ MatchesTitle(grid[i])}
    IN  IF hits = {} THEN None
        ELSE PyInt((CHOOSE i \in hits : \A j \in hits : i <= j) - 1)

\* a region loop that skips header grid and goes on to the end of the grid
TableRegionNoBreak(grid, begin) ==
    SelectSeq(SubSeq(grid, begin + 2, Len(grid)), LAMBDA r : ~is_table_header(r))

\* lines 80-86: the grid after grid[begin], up to the first header row
RECURSIVE RegionFrom(_, _)
RegionFrom(grid, i) ==
    IF i > Len(grid) THEN <<>>
    ELSE IF is_table_header(grid[i]) THEN <<>>
    ELSE <<grid[i]>> \o RegionFrom(grid, i + 1)

TableRegion(grid, begin) == RegionFrom(grid, begin + 2)

(***************************************************************************)
(* clean_cfi.py: dates, categories, reformatting                           *)
(***************************************************************************)
Min(a, b) == IF a <= b THEN a ELSE b

\* the grid of the table whose label, stripped and upper-cased, is the word
RowsLabelled(table, word) == SelectSeq(table, LAMBDA r : Upper(Strip(r[1])) = word)

\* line 98: zip(_from, _to), every pair joined by "-"
DateRanges(from, to) ==
    [i \in 1..Min(Len(from), Len(to)) |-> Strip(from[i]) \o <<"-">> \o Strip(to[i])]

\* line 106: every cell of the row, the label included, through convert_to_int
RowValues(row) == [i \in 1..Len(row) |-> convert_to_int(Strip(RemoveChar(row[i], ",")))]

\* lines 104-106: the converted row of every category present; a later row of
\* the same label replaces an earlier one
CategoryData(table) ==
    LET present == {c \in SeqRange(categories) :
                       \E i \in 1..Len(table) : Strip(table[i][1]) = c}
        lastRow(c) == table[CHOOSE i \in 1..Len(table) :
                               /\ Strip(table[i][1]) = c
                               /\ \A j \in 1..Len(table) : Strip(table[j][1]) = c => j <= i]
    IN  [c \in present |-> RowValues(lastRow(c))]

\* dict(zip(keys, values)): zip stops at the shorter; a repeated key keeps its
\* first place and takes its last value
ZipDict(ks, vs) ==
    LET n == Min(Len(ks), Len(vs))
        firsts == SelectSeq([i \in 1..n |-> i], LAMBDA i : \A j \in 1..(i - 1) : ks[j] # ks[i])
    IN  [type |-> "dict",
         order |-> [i \in 1..Len(firsts) |-> ks[firsts[i]]],
         val |-> [k \in {ks[i] : i \in 1..n} |->
                     vs[CHOOSE i \in 1..n : ks[i] = k /\ \A j \in 1..n : ks[j] = k => j <= i]]]

\* lines 113-114
CombineData(data, date_ranges) == [c \in DOMAIN data |-> ZipDict(date_ranges, data[c])]

\* data[category][date_range] on the defaultdict(list): a category never seen
\* is an empty list (TypeError on a text index), a date range the category's
\* dict lacks is a KeyError
Lookup(data, category, date_range) ==
    IF category \notin DOMAIN data THEN [exc |-> "TypeError", v |-> None]
    ELSE IF date_range \notin DOMAIN data[category].val THEN [exc |-> "KeyError", v |-> None]
    ELSE [exc |-> "", v |-> data[category].val[date_range]]

\* f"{value:,}" of a looked-up value: None has no such format
FormatError(lk) ==
    IF lk.exc # "" THEN lk.exc ELSE IF lk.v.type # "int" THEN "TypeError" ELSE ""

FirstError(errs) ==
    IF \A i \in 1..Len(errs) : errs[i] = "" THEN ""
    ELSE errs[CHOOSE i \in 1..Len(errs) : errs[i] # "" /\ \A j \in 1..(i - 1) : errs[j] = ""]

\* a sum that leaves the torture count out
FearEstablishedPersecutionOnly(p, t) == p

\* line 122
FearEstablished(p, t) == p + t

OutputFields == {"Date Range", "Case Receipts", "All Decisions", "Fear Established (Y)",
                 "Fear Not Established (N)", "Closings"}

\* lines 122-131 for one date range, in Python's order of evaluation: the
\* exception raised first, or the row
ReformatOne(data, date_range) ==
    LET p == Lookup(data, Persecution, date_range)
        t == Lookup(data, Torture, date_range)
        cr == Lookup(data, CaseReceipts, date_range)
        ad == Lookup(data, AllDecisions, date_range)
        ne == Lookup(data, NotEstablished, date_range)
        cl == Lookup(data, AdminClosed, date_range)
        parts == Split(date_range, "-")
        start == StrpMDY(parts[1])
        end == StrpMDY(parts[2])
        sumErr == IF p.exc # "" THEN p.exc
                  ELSE IF t.exc # "" THEN t.exc
                  ELSE IF p.v.type # "int" \/ t.v.type # "int" THEN "TypeError" ELSE ""
        dateErr == IF ~start.ok \/ ~end.ok THEN "ValueError" ELSE ""
        exc == FirstError(<<sumErr, dateErr, FormatError(cr), FormatError(ad),
                            FormatError(ne), FormatError(cl)>>)
        line == IF sumErr # "" THEN 122
                ELSE IF dateErr # "" THEN (IF ~start.ok THEN 124 ELSE 125)
                ELSE IF FormatError(cr) # "" THEN 126
                ELSE IF FormatError(ad) # "" THEN 127
                ELSE IF FormatError(ne) # "" THEN 129 ELSE 130
    IN  IF exc # "" THEN [exc |-> exc, line |-> line, row |-> <<>>]
        ELSE [exc |-> "", line |-> 0,
              row |-> [f \in OutputFields |->
                  CASE f = "Date Range" -> StrfYMD(start) \o <<"-">> \o StrfYMD(end)
                    [] f = "Case Receipts" -> FormatComma(cr.v.v)
                    [] f = "All Decisions" -> FormatComma(ad.v.v)
                    [] f = "Fear Established (Y)" -> FormatComma(FearEstablished(p.v.v, t.v.v))
                    [] f = "Fear Not Established (N)" -> FormatComma(ne.v.v)
                    [] f = "Closings" -> FormatComma(cl.v.v)]]

\* line 121
IsSentinel(date_range) == date_range \in {SentinelFromTo, SentinelDash}

\* lines 120-132: the loop over data['Case Receipts'].keys(); it stops at the
\* first exception with the grid appended so far. Every entry keeps the native
\* key its row was made from.
RECURSIVE ReformatLoop(_, _, _, _)
ReformatLoop(data, keys, i, acc) ==
    IF i > Len(keys) THEN [exc |-> "", line |-> 0, result |-> acc]
    ELSE IF IsSentinel(keys[i]) THEN ReformatLoop(data, keys, i + 1, acc)
    ELSE LET one == ReformatOne(data, keys[i])
         IN  IF one.exc # "" THEN [exc |-> one.exc, line |-> one.line, result |-> acc]
             ELSE ReformatLoop(data, keys, i + 1,
                               Append(acc, [native |-> keys[i], row |-> one.row]))

\* the key of line 135's sort: the text before the first "-" of 'Date Range',
\* parsed as '%Y-%m-%d'
SortKey(entry) == StrpYMD(Split(entry.row["Date Range"], "-")[1])

DateOrdinal(dt) == dt.y * 10000 + dt.m * 100 + dt.d

\* stable sort, latest start first (reverse=True keeps equal keys in order)
RECURSIVE InsertDescending(_, _)
InsertDescending(s, e) ==
    IF s = <<>> THEN <<e>>
    ELSE IF DateOrdinal(SortKey(s[Len(s)])) >= DateOrdinal(SortKey(e)) THEN Append(s, e)
    ELSE Append(InsertDescending(SubSeq(s, 1, Len(s) - 1), e), s[Len(s)])

RECURSIVE SortDescending(_)
SortDescending(s) ==
    IF s = <<>> THEN <<>>
    ELSE InsertDescending(SortDescending(SubSeq(s, 1, Len(s) - 1)), s[Len(s)])

PyList(items) == [type |-> "list", items |-> items]

NotCalled == [kind |-> "none", value |-> None, exc |-> "", line |-> 0]
Returns(value) == [kind |-> "return", value |-> value, exc |-> "", line |-> 0]
Raises(exc, line) == [kind |-> "raise", value |-> None, exc |-> exc, line |-> line]

NoLocals == [begin_cfi |-> None, cfi_table |-> <<>>, date_ranges |-> <<>>,
             data |-> <<>>, result |-> <<>>]

(***************************************************************************)
(* Bounds and input pools of the merge model                               *)
(***************************************************************************)
NumVals == 2
MaxNewKeys == 1

\* DateRange keys of the truth file; their lexical order is not their
\* calendar order ("2024-10-..." < "2024-9-..." as strings)
KeySep == "-"
Key9 == <<"2","0","2","4","-","9","-","1","-","2","0","2","4","-","9","-","1","4">>
Key10 == <<"2","0","2","4","-","1","0","-","1","-","2","0","2","4","-","1","0","-","1","4">>
Key12 == <<"2","0","2","3","-","1","2","-","1","6","-","2","0","2","3","-","1","2","-","3","1">>
Keys == {Key9, Key10, Key12}

Fields == {"Case Receipts", "Closings"}

ValuePool == <<"90", "100", "5", "7">>
Values == {ValuePool[i] : i \in 1..NumVals}

\* every field map over Fields (partial records included, the empty one too)
FieldMaps == UNION {[fs -> Values] : fs \in SUBSET Fields}

\* every ordering of a set of keys
RECURSIVE Orders(_)
Orders(ks) ==
    IF ks = {} THEN {<<>>}
    ELSE UNION {{<<k>> \o o : o \in Orders(ks \ {k})} : k \in ks}

\* a store by value: an iteration order and a field map per key
StoreValues(keys, maxKeys, maps) ==
    UNION {UNION {{[order |-> o, val |-> v] : v \in [ks -> maps]} : o \in Orders(ks)}
           : ks \in {x \in SUBSET keys : Cardinality(x) <= maxKeys}}

(***************************************************************************)
(* Python objects                                                          *)
(***************************************************************************)
\* dict(...) of a store value: the inner dicts get fresh references n+1, n+2, ...
AllocRefs(n, sv) == [k \in SeqRange(sv.order) |->
                        n + (CHOOSE i \in 1..Len(sv.order) : sv.order[i] = k)]

AllocHeap(h, n, sv) ==
    [r \in 1..(n + Len(sv.order)) |->
        IF r <= n THEN h[r] ELSE sv.val[sv.order[r - n]]]

AllocDict(n, sv) == [type |-> "dict", order |-> sv.order, at |-> AllocRefs(n, sv)]

\* the value a store has in heap h: what the caller reads from it
Deep(h, d) == [order |-> d.order, val |-> [k \in DOMAIN d.at |-> h[d.at[k]]]]

\* what a record-level overwrite would do instead of line 9's update
DictUpdateWholeRecord(rec, values) == values

\* inner dict.update(values): values' fields overwrite, the others stay
DictUpdate(rec, values) ==
    [f \in (DOMAIN rec) \cup (DOMAIN values) |->
        IF f \in DOMAIN values THEN values[f] ELSE rec[f]]

\* truth_data.copy(): a new outer dict over the SAME inner dict objects
DictCopy(d) == [type |-> "dict", order |-> d.order, at |-> d.at]

\* a merge that forgets to add the periods only the new data has
StoreNewKeyDropped(updated, date_range, values) == updated

\* updated_data[date_range] = values: the new key goes last and holds the
\* new data's own inner dict object
StoreNewKey(updated, date_range, values) ==
    [updated EXCEPT !.order = Append(@, date_range),
                    !.at = [k \in (DOMAIN @) \cup {date_range} |->
                               IF k = date_range THEN values ELSE @[k]]]

\* the loop of update_truth_with_new_data over new_data.items()
RECURSIVE MergeLoop(_, _, _, _)
MergeLoop(h, updated, new, i) ==
    IF i > Len(new.order) THEN [raised |-> "", heap |-> h, ret |-> updated]
    ELSE LET date_range == new.order[i]
             values == new.at[date_range]
         IN  IF date_range \in DOMAIN updated.at
             THEN MergeLoop([h EXCEPT ![updated.at[date_range]] = DictUpdate(@, h[values])],
                            updated, new, i + 1)
             ELSE MergeLoop(h, StoreNewKey(updated, date_range, values), new, i + 1)

\* update_truth_with_new_data(truth_data, new_data) run on heap h. new_data is
\* any Python value: only a dict has .items()
update_truth_with_new_data(h, truth, new) ==
    IF new.type # "dict"
    THEN [raised |-> "AttributeError", heap |-> h, ret |-> [type |-> "NoneType"]]
    ELSE MergeLoop(h, DictCopy(truth), new, 1)

(***************************************************************************)
(* sort_date_range_dict: imported by app.py, defined nowhere in the        *)
(* sources at hand; modelled from the specification (sorted ascending by   *)
(* each key's parsed start date, not by lexical string order)              *)
(***************************************************************************)
\* the key's leading date tokens, year-month-day, as one comparable number
StartDate(key) ==
    LET t == Split(key, KeySep)
    IN  ParseNat(t[1]) * 10000 + ParseNat(t[2]) * 100 + ParseNat(t[3])

\* stable insertion of key k into a sequence already sorted by StartDate
RECURSIVE InsertByDate(_, _)
InsertByDate(s, k) ==
    IF s = <<>> THEN <<k>>
    ELSE IF StartDate(s[Len(s)]) <= StartDate(k) THEN Append(s, k)
    ELSE Append(InsertByDate(SubSeq(s, 1, Len(s) - 1), k), s[Len(s)])

RECURSIVE SortByDate(_)
SortByDate(s) ==
    IF s = <<>> THEN <<>>
    ELSE InsertByDate(SortByDate(SubSeq(s, 1, Len(s) - 1)), s[Len(s)])

\* a sort that leaves the keys in insertion order
SortKeepsInsertionOrder(d) == d

sort_date_range_dict(d) == [d EXCEPT !.order = SortByDate(@)]

(***************************************************************************)
(* The merge model: a caller holding a loaded truth store                  *)
(***************************************************************************)
\* two records that differ in fields and values, for the stores whose point is
\* the order of many keys
FullRecord == [f \in Fields |-> IF f = "Closings" THEN "5" ELSE "90"]
PartialRecord == [f \in {"Case Receipts"} |-> "100"]

\* truth stores: every field map under one key, or two records over all keys
TruthStores ==
    StoreValues({Key9, Key10}, 1, FieldMaps \ {<<>>})
        \cup StoreValues(Keys, Cardinality(Keys), {FullRecord, PartialRecord})

\* new data of one report, by value
NewStores ==
    StoreValues({Key9, Key10}, MaxNewKeys, FieldMaps)
        \cup StoreValues(Keys, MaxNewKeys, {FullRecord, PartialRecord})

\* load_truth has produced the truth store; nothing has been merged yet
InitMerge ==
    \E sv \in TruthStores :
        /\ heap = AllocHeap(<<>>, 0, sv)
        /\ nrefs = Len(sv.order)
        /\ truth_data = AllocDict(0, sv)
        /\ orig_truth = sv
        /\ calls = <<>>
        /\ updated_data = None
        /\ sorted_data = None
        /\ mpc = "loaded"
        /\ rows = <<>>
        /\ locals = NoLocals
        /\ outcome = NotCalled
        /\ main_outcome = NotCalled
        /\ epc = "idle"

\* one call update_truth_with_new_data(base, dict(nv)) and its bookkeeping
DoUpdate(base, nv) ==
    LET h1 == AllocHeap(heap, nrefs, nv)
        new == AllocDict(nrefs, nv)
        r == update_truth_with_new_data(h1, base, new)
    IN  /\ heap' = r.heap
        /\ nrefs' = nrefs + Len(nv.order)
        /\ updated_data' = r.ret
        /\ calls' = Append(calls, [truth |-> Deep(heap, base), new |-> nv,
                                   newdict |-> new, truthdict |-> base])

\* a caller merges a first report into the truth store
MergeReport ==
    /\ mpc = "loaded"
    /\ \E nv \in NewStores : DoUpdate(truth_data, nv)
    /\ mpc' = "merged"
    /\ UNCHANGED <<truth_data, orig_truth, sorted_data, evars>>

\* the caller merges a second report into the store the first merge returned
MergeNextReport ==
    /\ mpc = "merged"
    /\ \E nv \in NewStores : DoUpdate(updated_data, nv)
    /\ mpc' = "merged2"
    /\ UNCHANGED <<truth_data, orig_truth, sorted_data, evars>>

\* app.py main, lines 37-40: merge, then sort what the merge returned
MainMergeAndSort ==
    /\ mpc = "loaded"
    /\ \E nv \in NewStores : DoUpdate(truth_data, nv)
    /\ sorted_data' = sort_date_range_dict(updated_data')
    /\ mpc' = "shown"
    /\ UNCHANGED <<truth_data, orig_truth, evars>>

NextMerge == MergeReport \/ MainMergeAndSort

SpecMerge == InitMerge /\ [][NextMerge]_vars

NextChain == MergeReport \/ MergeNextReport

SpecChain == InitMerge /\ [][NextChain]_vars

(***************************************************************************)
(* The extraction model: a report grid, and the calls made on it           *)
(***************************************************************************)
NumCols == 2
MaxEdits == 1

CellMinus7 == <<"-", "7">>
CellBadDate == <<"2", "/", "3", "0", "/", "2", "0", "2", "4">>
CellSeven == <<"7">>
Year2024 == <<"/", "2", "0", "2", "4">>

Blanks == [c \in 1..NumCols |-> <<>>]
Hdr(label) == <<label>> \o Blanks

\* column c covers the first half of month c of 2024
DateCell(c, day) == NatToStr(c) \o <<"/">> \o NatToStr(day) \o Year2024

\* distinct counts per category and column, some above one thousand
BaseValue(k, c) == (7 - k) * 300 + 11 * c + k

CatRow(k) == <<categories[k]>> \o [c \in 1..NumCols |-> FormatComma(BaseValue(k, c))]

\* a well-formed report: another table, the target table, another table
BaseGrid ==
    <<Hdr(OtherTitle), <<LabelTotal>> \o [c \in 1..NumCols |-> NatToStr(40 + c)],
      Hdr(TargetTitle),
      <<LabelFrom>> \o [c \in 1..NumCols |-> DateCell(c, 1)],
      <<LabelTo>> \o [c \in 1..NumCols |-> DateCell(c, 15)],
      CatRow(1), CatRow(2), CatRow(3), CatRow(4), CatRow(5), CatRow(6),
      Hdr(OtherTitle), <<CaseReceipts>> \o [c \in 1..NumCols |-> NatToStr(50 + c)]>>

CellPool == {<<>>, CellNA, CellPadded42, CellMinus7, CellBadDate, UpperFROM, TitleUpper}
RowPool == {<<>>, Hdr(OtherTitle), Hdr(TitleTrailing)}

InsertRow(g, p, row) == SubSeq(g, 1, p) \o <<row>> \o SubSeq(g, p + 1, Len(g))
DeleteRow(g, r) == SubSeq(g, 1, r - 1) \o SubSeq(g, r + 1, Len(g))

\* every grid one change away from g: a cell replaced, a row cut short or
\* made longer, a row removed, a row put in
OneEdit(g) ==
    UNION {
        {[g EXCEPT ![r][c] = v] : v \in CellPool} : r \in 1..Len(g), c \in 1..(NumCols + 1)
    } \cup {[g EXCEPT ![r] = SubSeq(@, 1, Len(@) - 1)] : r \in {x \in 1..Len(g) : g[x] # <<>>}}
      \cup {[g EXCEPT ![r] = Append(@, CellSeven)] : r \in 1..Len(g)}
      \cup {DeleteRow(g, r) : r \in 1..Len(g)}
      \cup {InsertRow(g, p, row) : p \in 0..Len(g), row \in RowPool}

RECURSIVE EditsOf(_)
EditsOf(n) ==
    IF n = 0 THEN {BaseGrid}
    ELSE LET prev == EditsOf(n - 1) IN prev \cup UNION {OneEdit(g) : g \in prev}

\* the truth file main loads beside the report
TruthSample == [order |-> <<Key9>>, val |-> [k \in {Key9} |-> FullRecord]]

InitExtract ==
    /\ rows \in EditsOf(MaxEdits)
    /\ locals = NoLocals
    /\ outcome = NotCalled
    /\ main_outcome = NotCalled
    /\ epc = "ready"
    /\ heap = AllocHeap(<<>>, 0, TruthSample)
    /\ nrefs = Len(TruthSample.order)
    /\ truth_data = AllocDict(0, TruthSample)
    /\ orig_truth = TruthSample
    /\ calls = <<>>
    /\ updated_data = None
    /\ sorted_data = None
    /\ mpc = "loaded"

\* extract_credible_fear_data runs in the steps its progress messages mark.
\* Lines 77-91: locate the table and collect its rows; without a matching
\* header the function returns [] at once
LoadTable ==
    /\ epc = "ready"
    /\ \E b \in {id_all_cfi_table(rows)} :
           IF b = None
           THEN /\ outcome' = Returns(PyList(<<>>))
                /\ epc' = "left"
                /\ UNCHANGED locals
           ELSE /\ locals' = [locals EXCEPT !.begin_cfi = b,
                                            !.cfi_table = TableRegion(rows, b.v)]
                /\ epc' = "loaded"
                /\ UNCHANGED outcome
    /\ UNCHANGED <<rows, main_outcome, mvars>>

\* lines 96-100: the first FROM row and the first TO row, zipped. row[0] of an
\* empty row and [0] of an empty selection are IndexErrors
ExtractDates ==
    /\ epc = "loaded"
    /\ \E table \in {locals.cfi_table} :
           IF (\E i \in 1..Len(table) : table[i] = <<>>)
                  \/ RowsLabelled(table, UpperFROM) = <<>>
           THEN /\ outcome' = Raises("IndexError", 96)
                /\ epc' = "left"
                /\ UNCHANGED locals
           ELSE IF RowsLabelled(table, UpperTO) = <<>>
           THEN /\ outcome' = Raises("IndexError", 97)
                /\ epc' = "left"
                /\ UNCHANGED locals
           ELSE /\ locals' = [locals EXCEPT !.date_ranges =
                                 DateRanges(RowsLabelled(table, UpperFROM)[1],
                                            RowsLabelled(table, UpperTO)[1])]
                /\ epc' = "dates"
                /\ UNCHANGED outcome
    /\ UNCHANGED <<rows, main_outcome, mvars>>

\* lines 104-108
ExtractCategories ==
    /\ epc = "dates"
    /\ locals' = [locals EXCEPT !.data = CategoryData(locals.cfi_table)]
    /\ epc' = "categories"
    /\ UNCHANGED <<rows, outcome, main_outcome, mvars>>

\* lines 112-116
Combine ==
    /\ epc = "categories"
    /\ locals' = [locals EXCEPT !.data = CombineData(@, locals.date_ranges)]
    /\ epc' = "combined"
    /\ UNCHANGED <<rows, outcome, main_outcome, mvars>>

\* lines 119-138: the reformatting loop, then the sort of its rows; the function
\* ends without a return statement, so a run that gets there returns None
Reformat ==
    /\ epc = "combined"
    /\ IF CaseReceipts \notin DOMAIN locals.data
       THEN /\ outcome' = Raises("AttributeError", 120)
            /\ UNCHANGED locals
       ELSE \E ref \in {ReformatLoop(locals.data, locals.data[CaseReceipts].order, 1, <<>>)} :
                IF ref.exc # ""
                THEN /\ outcome' = Raises(ref.exc, ref.line)
                     /\ locals' = [locals EXCEPT !.result = ref.result]
                ELSE IF \E i \in 1..Len(ref.result) : ~SortKey(ref.result[i]).ok
                THEN /\ outcome' = Raises("ValueError", 135)
                     /\ locals' = [locals EXCEPT !.result = ref.result]
                ELSE /\ outcome' = Returns(None)
                     /\ locals' = [locals EXCEPT !.result = SortDescending(ref.result)]
    /\ epc' = "left"
    /\ UNCHANGED <<rows, main_outcome, mvars>>

\* app.py main, lines 33-40, once extract_credible_fear_data is left: its
\* exception leaves main too; otherwise what it returned is merged into the
\* loaded truth and the merge is sorted
MainMerge ==
    /\ epc = "left"
    /\ IF outcome.kind = "raise"
       THEN /\ main_outcome' = outcome
            /\ UNCHANGED <<heap, updated_data, sorted_data, mpc>>
       ELSE \E r \in {update_truth_with_new_data(heap, truth_data, outcome.value)} :
                IF r.raised # ""
                THEN /\ main_outcome' = Raises(r.raised, 7)
                     /\ UNCHANGED <<heap, updated_data, sorted_data, mpc>>
                ELSE /\ main_outcome' = Returns(None)
                     /\ heap' = r.heap
                     /\ updated_data' = r.ret
                     /\ sorted_data' = sort_date_range_dict(r.ret)
                     /\ mpc' = "shown"
    /\ epc' = "main_done"
    /\ UNCHANGED <<rows, locals, outcome, nrefs, truth_data, orig_truth, calls>>

NextExtract ==
    LoadTable \/ ExtractDates \/ ExtractCategories \/ Combine \/ Reformat \/ MainMerge

SpecExtract == InitExtract /\ [][NextExtract]_vars

(***************************************************************************)
(* Properties of the truth merge                                           *)
(***************************************************************************)
LastCall == calls[Len(calls)]

\* the returned store as the caller reads it now
Returned == Deep(heap, updated_data).val

\* C1: for every key present in both the truth store and the new data, the
\* returned record is the field-level shallow merge: every field the new data
\* supplies has the new value, every field only truth has keeps truth's value.
C1_FieldLevelMerge ==
    calls # <<>> =>
        LET T == LastCall.truth.val
            N == LastCall.new.val
        IN  \A k \in (DOMAIN T) \cap (DOMAIN N) :
                /\ k \in DOMAIN Returned
                /\ DOMAIN Returned[k] = (DOMAIN T[k]) \cup (DOMAIN N[k])
                /\ \A f \in DOMAIN Returned[k] :
                       Returned[k][f] = IF f \in DOMAIN N[k] THEN N[k][f] ELSE T[k][f]

\* a partial update met a fuller truth record: one field overwritten with a
\* different value, one field of truth untouched by the new data
C1_Witness ==
    /\ calls # <<>>
    /\ \E k \in (DOMAIN LastCall.truth.val) \cap (DOMAIN LastCall.new.val) :
           LET t == LastCall.truth.val[k]
               n == LastCall.new.val[k]
           IN  /\ \E f \in (DOMAIN t) \cap (DOMAIN n) : t[f] # n[f]
               /\ \E f \in (DOMAIN t) \ (DOMAIN n) : Returned[k][f] = t[f]

\* C2: update_truth_with_new_data never mutates the caller's truth store: after
\* any sequence of merge calls the caller's mapping has the keys and the field
\* values it had when it was loaded.
C2_TruthNeverMutated == Deep(heap, truth_data) = orig_truth

\* C3: the returned key set is keys(T) union keys(N); a key only in T keeps T's
\* record, a key only in N has N's record.
C3_KeyUnion ==
    calls # <<>> =>
        LET T == LastCall.truth.val
            N == LastCall.new.val
        IN  /\ DOMAIN Returned = (DOMAIN T) \cup (DOMAIN N)
            /\ \A k \in (DOMAIN T) \ (DOMAIN N) : Returned[k] = T[k]
            /\ \A k \in (DOMAIN N) \ (DOMAIN T) : Returned[k] = N[k]

\* a merge with a key only truth has and a key only the new data has
C3_Witness ==
    /\ calls # <<>>
    /\ (DOMAIN LastCall.truth.val) \ (DOMAIN LastCall.new.val) # {}
    /\ (DOMAIN LastCall.new.val) \ (DOMAIN LastCall.truth.val) # {}
    /\ DOMAIN Returned = (DOMAIN LastCall.truth.val) \cup (DOMAIN LastCall.new.val)

\* A and B supply no conflicting value for the same field of the same key
NonConflicting(A, B) ==
    \A k \in (DOMAIN A.val) \cap (DOMAIN B.val) :
        \A f \in (DOMAIN A.val[k]) \cap (DOMAIN B.val[k]) : A.val[k][f] = B.val[k][f]

\* the union of two reports: A's keys, then B's further keys; fields united
UnionStore(A, B) ==
    [order |-> A.order \o SelectSeq(B.order, LAMBDA k : k \notin DOMAIN A.val),
     val |-> [k \in (DOMAIN A.val) \cup (DOMAIN B.val) |->
                 IF k \notin DOMAIN B.val THEN A.val[k]
                 ELSE IF k \notin DOMAIN A.val THEN B.val[k]
                 ELSE DictUpdate(A.val[k], B.val[k])]]

\* one call merging new data U into truth T, both given by value
OneShot(T, U) ==
    LET n == Len(T.order)
        r == update_truth_with_new_data(AllocHeap(AllocHeap(<<>>, 0, T), n, U),
                                        AllocDict(0, T), AllocDict(n, U))
    IN  Deep(r.heap, r.ret).val

\* the store two chained merges return equals the one-call merge of the union
ChainEqualsOneShot ==
    (Len(calls) = 2 /\ NonConflicting(calls[1].new, calls[2].new)) =>
        Returned = OneShot(calls[1].truth, UnionStore(calls[1].new, calls[2].new))

\* C4: merging A into T and then B into the result equals merging the union of
\* A and B into T in one call, for A and B without conflicting fields, and the
\* inputs A and B are as the caller passed them after the later merge.
C4_AssociativeInputsIntact ==
    (Len(calls) = 2 /\ NonConflicting(calls[1].new, calls[2].new)) =>
        /\ Returned = OneShot(calls[1].truth, UnionStore(calls[1].new, calls[2].new))
        /\ Deep(heap, calls[1].newdict) = calls[1].new
        /\ Deep(heap, calls[2].newdict) = calls[2].new

Left == epc \in {"left", "main_done"}

Found == locals.begin_cfi # None

\* no header row of the grid scores above the threshold
NoMatch(grid) == \A i \in 1..Len(grid) : is_table_header(grid[i]) => ~MatchesTitle(grid[i])

\* C6: for a grid without a matching header, id_all_cfi_table reports
\* not-found, extract_credible_fear_data returns an empty result without
\* raising, and the caller's pipeline (the merge of that result into the truth
\* store) completes without raising too.
C6_MissingTableGraceful ==
    NoMatch(rows) =>
        /\ epc \in {"ready", "left", "main_done"}
        /\ Left => (~Found /\ outcome = Returns(PyList(<<>>)))
        /\ epc = "main_done" => main_outcome.kind = "return"

\* the extraction's own part of it: absence reported, [] returned, no raise
MissingTableReturnsEmpty ==
    (NoMatch(rows) /\ Left) => (~Found /\ outcome = Returns(PyList(<<>>)))

\* the table read straight from the grid region, for stating what a run
\* should have produced
FromRowOf(table) == RowsLabelled(table, UpperFROM)[1]
ToRowOf(table) == RowsLabelled(table, UpperTO)[1]
KeyAt(table, i) == Strip(FromRowOf(table)[i]) \o <<"-">> \o Strip(ToRowOf(table)[i])
NumKeys(table) == Min(Len(FromRowOf(table)), Len(ToRowOf(table)))

HasDateRows(table) ==
    /\ \A i \in 1..Len(table) : table[i] # <<>>
    /\ RowsLabelled(table, UpperFROM) # <<>>
    /\ RowsLabelled(table, UpperTO) # <<>>

IsCategoryRow(row) == Strip(row[1]) \in SeqRange(categories)

CellInt(cell) == convert_to_int(Strip(RemoveChar(cell, ",")))

\* a real period: both ends are dates of the report's month/day/year form
IsPeriod(table, i) ==
    /\ StrpMDY(Strip(FromRowOf(table)[i])).ok
    /\ StrpMDY(Strip(ToRowOf(table)[i])).ok

\* every row as long as the FROM row
Aligned(table) ==
    /\ Len(FromRowOf(table)) = Len(ToRowOf(table))
    /\ \A r \in 1..Len(table) : IsCategoryRow(table[r]) => Len(table[r]) = Len(FromRowOf(table))

\* one table of the expected shape: one row per label, aligned, the label
\* column a sentinel, every other column a distinct real period
WellFormed(table) ==
    /\ HasDateRows(table)
    /\ Len(RowsLabelled(table, UpperFROM)) = 1
    /\ Len(RowsLabelled(table, UpperTO)) = 1
    /\ \A c \in SeqRange(categories) :
           Cardinality({r \in 1..Len(table) : Strip(table[r][1]) = c}) = 1
    /\ Aligned(table)
    /\ NumKeys(table) >= 1
    /\ IsSentinel(KeyAt(table, 1))
    /\ \A i \in 2..NumKeys(table) : IsPeriod(table, i)
    /\ \A i, j \in 1..NumKeys(table) : i # j => KeyAt(table, i) # KeyAt(table, j)

\* the columns in which some category cell is not an integer
BadColumns(table) ==
    {i \in 2..NumKeys(table) :
        \E r \in 1..Len(table) : IsCategoryRow(table[r]) /\ CellInt(table[r][i]) = None}

Emitted == {locals.result[i].native : i \in 1..Len(locals.result)}

\* C7: an unparsable category cell is "no value", not a failure: no exception
\* is raised, the affected DateRange is left out of the records, and the
\* records of every other DateRange of the table are produced.
C7_UnparsableCellSkipped ==
    (Left /\ Found /\ WellFormed(locals.cfi_table) /\ BadColumns(locals.cfi_table) # {}) =>
        /\ outcome.kind = "return"
        /\ Emitted = {KeyAt(locals.cfi_table, i) :
                         i \in (2..NumKeys(locals.cfi_table)) \ BadColumns(locals.cfi_table)}

\* the integers the table's rows labelled c hold in a column whose key is dr
ValuesOf(table, c, dr) ==
    {CellInt(table[r][i]).v :
        <<r, i>> \in {x \in (1..Len(table)) \X (1..NumKeys(table)) :
                         /\ Strip(table[x[1]][1]) = c
                         /\ x[2] <= Len(table[x[1]])
                         /\ KeyAt(table, x[2]) = dr
                         /\ CellInt(table[x[1]][x[2]]) # None}}

\* the integer a display string shows
ReadDisplay(s) == IntOfLiteral(RemoveChar(s, ","))

\* C8: every emitted record belongs to a key that is no sentinel; its 'Fear
\* Established (Y)' is the sum of that DateRange's persecution and torture
\* integers, 'Closings' is its 'Administratively Closed' value, and the other
\* three fields carry their same-named category's value for that DateRange.
C8_DerivedFields ==
    \A n \in 1..Len(locals.result) :
        LET e == locals.result[n]
            table == locals.cfi_table
        IN  /\ ~IsSentinel(e.native)
            /\ ReadDisplay(e.row["Fear Established (Y)"]) \in
                   {p + t : p \in ValuesOf(table, Persecution, e.native),
                            t \in ValuesOf(table, Torture, e.native)}
            /\ ReadDisplay(e.row["Closings"]) \in ValuesOf(table, AdminClosed, e.native)
            /\ ReadDisplay(e.row["Case Receipts"]) \in ValuesOf(table, CaseReceipts, e.native)
            /\ ReadDisplay(e.row["All Decisions"]) \in ValuesOf(table, AllDecisions, e.native)
            /\ ReadDisplay(e.row["Fear Not Established (N)"]) \in
                   ValuesOf(table, NotEstablished, e.native)

\* the well-formed report reformatted: one record per period, the first with
\* a sum that needs a thousands separator
C8_Witness ==
    /\ Left
    /\ rows = BaseGrid
    /\ Len(locals.result) = NumCols
    /\ locals.result[1].row["Fear Established (Y)"] =
           FormatComma(BaseValue(3, 1) + BaseValue(4, 1))
    /\ locals.result[1].row["Closings"] = FormatComma(BaseValue(6, 1))

\* FROM and TO differ in length, or a category row is not as long as they are
Misaligned(table) ==
    \/ Len(FromRowOf(table)) # Len(ToRowOf(table))
    \/ \E r \in 1..Len(table) : IsCategoryRow(table[r]) /\ Len(table[r]) # NumKeys(table)

\* the lines that pair cells with date ranges
PairingLines == {98, 106, 114}

\* C9: a category row whose cell count differs from the DateRange count (or
\* FROM and TO of different lengths) makes the extraction report a data-format
\* error at the pairing; nothing is silently truncated into records.
C9_MisalignmentReported ==
    (Left /\ Found /\ HasDateRows(locals.cfi_table) /\ Misaligned(locals.cfi_table)) =>
        /\ outcome.kind = "raise"
        /\ outcome.line \in PairingLines
        /\ locals.result = <<>>

\* C10: the table region is exactly the rows after the located header up to,
\* not including, the next header row (or the end of the grid): it holds no
\* header row, leaves out no row before that header, and building it raises
\* nothing, also when it is empty.
C10_RegionIsContiguous ==
    Found =>
        LET b == locals.begin_cfi.v + 1
            after == {j \in (b + 1)..Len(rows) : is_table_header(rows[j])}
            stop == IF after = {} THEN Len(rows) + 1
                    ELSE CHOOSE j \in after : \A k \in after : j <= k
        IN  /\ is_table_header(rows[b])
            /\ locals.cfi_table = SubSeq(rows, b + 1, stop - 1)
            /\ \A i \in 1..Len(locals.cfi_table) : ~is_table_header(locals.cfi_table[i])
            /\ epc = "loaded" => outcome = NotCalled
            /\ outcome.kind = "raise" => outcome.line > 91

\* a region of several rows that ends at a header with more rows behind it
C10_Witness ==
    /\ epc = "loaded"
    /\ Len(locals.cfi_table) >= 2
    /\ LET stop == locals.begin_cfi.v + 2 + Len(locals.cfi_table)
       IN  /\ stop < Len(rows)
           /\ is_table_header(rows[stop])
           /\ ~is_table_header(rows[stop + 1])

\* the degenerate table: a header right after the located header
EmptyRegionReached ==
    /\ epc = "loaded"
    /\ locals.cfi_table = <<>>
    /\ locals.begin_cfi.v + 2 <= Len(rows)
    /\ is_table_header(rows[locals.begin_cfi.v + 2])

====
